---- MODULE Spec2Model ----
(***************************************************************************)
(* Reverse tunnelling proxy: the dispatcher of server/manager (Manager.manage, *)
(* Manager.Listen, Manager.handleTunnel) and the ticket loop of manager      *)
(* (Manager.Manage).  Channels made with make(chan T) are unbuffered: a      *)
(* send completes in the step in which the receiver takes the value.         *)
(***************************************************************************)
EXTENDS Integers, Sequences, FiniteSets, TLC

\* ------------------------------------------------------------------ bounds
MaxDomains == 2
MaxSocks == 2
MaxConns == 2
MaxTuns == 1
MaxData == 2
MaxWs == 2

Domains == 1..MaxDomains
\* NewNetworkHub runs at most once per register event.
HubIds == 1..MaxSocks
SockIds == 1..MaxSocks
ConnIds == 1..MaxConns
TunIds == 1..MaxTuns
WsIds == 1..MaxWs
DataIds == 1..MaxData
\* Ticket strings: 1..MaxConns are the values of uuid.NewString() (one is
\* minted per Pipe event); 0 is a string the loop never minted.
TicketIds == 0..MaxConns

VARIABLES
    \* ---- dispatcher (server/manager)
    hubs,         \* Manager.hubs: domain -> hub id, 0 when the map has no entry
    nextHub,      \* number of hubs created by NewNetworkHub so far
    hubDomain,    \* hub id -> its domain (0: not created)
    hubStarted,   \* hubs whose listen() goroutine was started
    hubSignals,   \* hub id -> number of values received on its shutdownSignal
    hubWs,        \* hub id -> control sockets received on registerWebSocket
    hubIn,        \* hub id -> public connections received on incomingClientConn
    hubReq,       \* hub id -> data sockets received on serverRequests
    mpc,          \* position of the manage goroutine
    marg,         \* the event the manage goroutine is handling
    nextSock,     \* control sockets upgraded so far
    sockDomain,   \* websocketConn.Domain
    sockAllow,    \* websocketConn.AllowMultipleConnections
    sockState,    \* "unborn" | "sending" | "bound" | "gone"
    nextTun,      \* handleTunnel calls so far
    tunState,     \* "unborn" | "dropped" | "sending" | "delivered"
    tunHub,       \* hub read from Manager.hubs by handleTunnel
    lpc,          \* position of Manager.Listen
    proxyState,   \* public listener: "off" | "listening" | "closed"
    ctlState,     \* control listener: "off" | "listening" | "failed" | "stopped"
    hubStuck,     \* hubs whose loop is blocked in its send on unregisterDomain
    \* ---- ticket loop (manager)
    ws,           \* Manager.ws: bound control socket, 0 for nil
    nextWs,       \* control sockets received on registerWs so far
    wsDead,       \* control sockets whose peer is gone: writes to them fail
    told,         \* tickets the agent received in a {"uuid": ticket} message
    pipes,        \* Manager.pipes: ticket -> public connection, 0 when absent
    channels,     \* Manager.channels: ticket -> data socket, 0 when absent
    nextData,     \* data sockets received on registerChain so far
    splices,      \* goroutine pairs started by the registerChain case
    dataClosed,   \* data sockets closed by the server
    crashed,      \* the process died of a panic
    writing,      \* ticket of the Pipe case whose ws.WriteJSON has not returned, 0 at the select
    wsClosed,     \* control sockets closed by the server
    \* ---- public connections (both loops)
    nextConn,     \* public connections delivered so far
    connDomain,   \* RemoteConn.Domain
    connResp,     \* what the server wrote to the connection: "none" | "502"
    connClosed,   \* public connections closed by the server
    \* ---- configuration (server/config, helper)
    cpc,          \* position of GetConfig: "start" | "returned" | "done" | "fatal"
    absOk,        \* filepath.Abs succeeds
    flagP,        \* value of flag -p after flag.Parse
    flagM,        \* value of flag -m after flag.Parse
    fileOpen,     \* os.Open(configPath) succeeds
    fileRead,     \* io.ReadAll succeeds
    fileParse,    \* yaml.Unmarshal succeeds
    fileP,        \* proxy.addr in the file ("" when absent)
    fileM,        \* manager.addr in the file ("" when absent)
    config,       \* the package variable config: NilConfig or a Config record
    svValue,      \* SetValue: argument value
    svDefault,    \* SetValue: argument defaultValue
    svResult      \* SetValue: returned value, NoValue before the call

dvars == <<hubs, nextHub, hubDomain, hubStarted, hubSignals, hubWs, hubIn, hubReq,
           mpc, marg, nextSock, sockDomain, sockAllow, sockState,
           nextTun, tunState, tunHub, lpc, proxyState, ctlState, hubStuck>>
lvars == <<ws, nextWs, wsDead, told, pipes, channels, nextData, splices,
           dataClosed, crashed, writing, wsClosed>>
cvars == <<nextConn, connDomain, connResp, connClosed>>
kvars == <<cpc, absOk, flagP, flagM, fileOpen, fileRead, fileParse, fileP, fileM,
           config, svValue, svDefault, svResult>>
vars == <<dvars, lvars, cvars, kvars>>

NoArg == [hub |-> 0, sock |-> 0, conn |-> 0, dom |-> 0]

\* ------------------------------------------------------ values of interface{}
\* A Go value as SetValue sees it: its dynamic type, its printed value and,
\* for a struct, the printed values of its fields ("" is a field's zero value).
Value(kind, v, f) == [kind |-> kind, v |-> v, f |-> f]
Str(s) == Value("string", s, <<>>)
NoValue == Value("none", "", <<>>)
StructKinds == {"struct{}", "Config"}
Values ==
    {Str(s) : s \in {"", ":8080", ":9000"}}
    \cup {Value("int", n, <<>>) : n \in {"0", "7"}}
    \cup {Value("bool", b, <<>>) : b \in {"false", "true"}}
    \cup {Value("struct{}", "{}", <<>>)}
    \cup {Value("Config", "{}", f) : f \in {<<"", "">>, <<":8080", "">>}}
    \cup {Value("float64", "1.5", <<>>), Value("nil", "nil", <<>>)}

\* type Config struct; var config interface{} is nil until loadConfig sets it.
NilConfig == [nil |-> TRUE, Proxy |-> "", Manager |-> ""]
ProxyFlags == {":8080", "", ":9000"}
ManagerFlags == {":8081", "", ":9001"}
ProxyInFile == {"", ":7000"}
ManagerInFile == {"", ":7001"}

\* The tunnel server before Listen and before the first event.
InitRelay ==
    /\ hubs = [d \in Domains |-> 0]
    /\ nextHub = 0
    /\ hubDomain = [h \in HubIds |-> 0]
    /\ hubStarted = {}
    /\ hubSignals = [h \in HubIds |-> 0]
    /\ hubWs = [h \in HubIds |-> {}]
    /\ hubIn = [h \in HubIds |-> {}]
    /\ hubReq = [h \in HubIds |-> {}]
    /\ mpc = "off"
    /\ marg = NoArg
    /\ nextSock = 0
    /\ sockDomain = [s \in SockIds |-> 0]
    /\ sockAllow = [s \in SockIds |-> FALSE]
    /\ sockState = [s \in SockIds |-> "unborn"]
    /\ nextTun = 0
    /\ tunState = [t \in TunIds |-> "unborn"]
    /\ tunHub = [t \in TunIds |-> 0]
    /\ lpc = "start"
    /\ proxyState = "off"
    /\ ctlState = "off"
    /\ hubStuck = {}
    /\ ws = 0
    /\ nextWs = 0
    /\ wsDead = {}
    /\ told = {}
    /\ pipes = [t \in TicketIds |-> 0]
    /\ channels = [t \in TicketIds |-> 0]
    /\ nextData = 0
    /\ splices = <<>>
    /\ dataClosed = {}
    /\ crashed = FALSE
    /\ writing = 0
    /\ wsClosed = {}
    /\ nextConn = 0
    /\ connDomain = [c \in ConnIds |-> 0]
    /\ connResp = [c \in ConnIds |-> "none"]
    /\ connClosed = {}

\* No SetValue call in progress.
InitNoCall ==
    /\ svValue = NoValue
    /\ svDefault = NoValue
    /\ svResult = NoValue

\* The process as started with no flags and no configuration file.
InitDefaults ==
    /\ cpc = "start"
    /\ absOk = TRUE
    /\ flagP = ":8080"
    /\ flagM = ":8081"
    /\ fileOpen = FALSE
    /\ fileRead = TRUE
    /\ fileParse = TRUE
    /\ fileP = ""
    /\ fileM = ""
    /\ config = NilConfig

Init == InitRelay /\ InitDefaults /\ InitNoCall

\* ------------------------------------------------------------- hub (receiver)
\* A hub takes values from its inboxes while its listen loop runs: from the
\* moment it is started until it has taken a shutdown signal, and not while
\* the loop itself is blocked in a send.
HubListening(h) == h \in hubStarted /\ hubSignals[h] = 0 /\ h \notin hubStuck

\* ------------------------------------------------------------ Manager.Listen
\* go manager.manage(done); go manager.proxy.Listen(manager.remoteConn)
ListenStart ==
    /\ lpc = "start"
    /\ lpc' = "bind"
    /\ mpc' = "select"
    /\ proxyState' = "listening"
    /\ UNCHANGED <<hubs, nextHub, hubDomain, hubStarted, hubSignals, hubWs, hubIn,
                   hubReq, marg, nextSock, sockDomain, sockAllow, sockState,
                   nextTun, tunState, tunHub, ctlState, cvars, hubStuck, lvars, kvars>>

\* net.Listen / tls.Listen: on error the listener is never served and Listen
\* goes straight to the send on done.
ListenBind(ok) ==
    /\ lpc = "bind"
    /\ lpc' = IF ok THEN "serving" ELSE "sendDone"
    /\ ctlState' = IF ok THEN "listening" ELSE "failed"
    /\ UNCHANGED <<hubs, nextHub, hubDomain, hubStarted, hubSignals, hubWs, hubIn,
                   hubReq, mpc, marg, nextSock, sockDomain, sockAllow, sockState,
                   nextTun, tunState, tunHub, proxyState, cvars, hubStuck, lvars, kvars>>

\* manager.engine.RunListener(l) returns: the control listener no longer serves.
RunListenerReturns ==
    /\ lpc = "serving"
    /\ lpc' = "sendDone"
    /\ ctlState' = "stopped"
    /\ UNCHANGED <<hubs, nextHub, hubDomain, hubStarted, hubSignals, hubWs, hubIn,
                   hubReq, mpc, marg, nextSock, sockDomain, sockAllow, sockState,
                   nextTun, tunState, tunHub, proxyState, cvars, hubStuck, lvars, kvars>>

\* done <- struct{}{} in Listen meets case <-done in manage: the loop returns.
\* Listen is then left with its deferred manager.proxy.Close().
Done ==
    /\ lpc = "sendDone"
    /\ mpc = "select"
    /\ mpc' = "stopped"
    /\ lpc' = "deferred"
    /\ UNCHANGED <<hubs, nextHub, hubDomain, hubStarted, hubSignals, hubWs, hubIn,
                   hubReq, marg, nextSock, sockDomain, sockAllow, sockState,
                   nextTun, tunState, tunHub, proxyState, ctlState, cvars, hubStuck, lvars, kvars>>

\* defer manager.proxy.Close()
ProxyClose ==
    /\ lpc = "deferred"
    /\ lpc' = "returned"
    /\ proxyState' = "closed"
    /\ UNCHANGED <<hubs, nextHub, hubDomain, hubStarted, hubSignals, hubWs, hubIn,
                   hubReq, mpc, marg, nextSock, sockDomain, sockAllow, sockState,
                   nextTun, tunState, tunHub, ctlState, cvars, hubStuck, lvars, kvars>>

\* ------------------------------------------------------------ Manager.manage
NeedsNewHubAlways(d) == TRUE
\* if manager.hubs[conn.Domain] == nil
NeedsNewHub(d) == hubs[d] = 0

\* case conn := <-manager.registerDomain, up to the send on registerWebSocket.
RegisterDomain(d, allow) ==
    /\ mpc = "select"
    /\ ctlState \in {"listening", "stopped"}
    /\ nextSock < MaxSocks
    /\ LET s == nextSock + 1
           fresh == NeedsNewHub(d)
           h == IF fresh THEN nextHub + 1 ELSE hubs[d]
       IN  /\ nextSock' = s
           /\ sockDomain' = [sockDomain EXCEPT ![s] = d]
           /\ sockAllow' = [sockAllow EXCEPT ![s] = allow]
           /\ sockState' = [sockState EXCEPT ![s] = "sending"]
           /\ IF fresh
              THEN /\ hubs' = [hubs EXCEPT ![d] = h]
                   /\ nextHub' = h
                   /\ hubDomain' = [hubDomain EXCEPT ![h] = d]
                   /\ hubStarted' = hubStarted \cup {h}
              ELSE UNCHANGED <<hubs, nextHub, hubDomain, hubStarted>>
           /\ mpc' = "sendRegister"
           /\ marg' = [NoArg EXCEPT !.hub = h, !.sock = s, !.dom = d]
    /\ UNCHANGED <<hubSignals, hubWs, hubIn, hubReq, nextTun, tunState,
                   tunHub, lpc, proxyState, ctlState, cvars, hubStuck, lvars, kvars>>

\* manager.hubs[conn.Domain].registerWebSocket <- conn is taken by the hub.
RegisterDelivered ==
    /\ mpc = "sendRegister"
    /\ HubListening(marg.hub)
    /\ hubWs' = [hubWs EXCEPT ![marg.hub] = @ \cup {marg.sock}]
    /\ sockState' = [sockState EXCEPT ![marg.sock] = "bound"]
    /\ mpc' = "select"
    /\ marg' = NoArg
    /\ UNCHANGED <<hubs, nextHub, hubDomain, hubStarted, hubSignals, hubIn, hubReq,
                   nextSock, sockDomain, sockAllow, nextTun, tunState,
                   tunHub, lpc, proxyState, ctlState, cvars, hubStuck, lvars, kvars>>

\* case domain := <-manager.unregisterDomain, up to the send on shutdownSignal.
\* The sender is the hub side of a bound control socket s whose agent went
\* away: it sends the socket's domain on manager.unregisterDomain.
UnregisterDomain(s) ==
    /\ mpc = "select"
    /\ sockState[s] = "bound"
    /\ sockState' = [sockState EXCEPT ![s] = "gone"]
    /\ LET d == sockDomain[s]
       IN  IF hubs[d] # 0
           THEN /\ mpc' = "sendShutdown"
                /\ marg' = [NoArg EXCEPT !.hub = hubs[d], !.dom = d]
           ELSE UNCHANGED <<mpc, marg>>
    /\ UNCHANGED <<hubs, nextHub, hubDomain, hubStarted, hubSignals, hubWs, hubIn,
                   hubReq, nextSock, sockDomain, sockAllow, nextTun,
                   tunState, tunHub, lpc, proxyState, ctlState, cvars, hubStuck, lvars, kvars>>

DeleteHubNoop(d) == hubs
\* delete(manager.hubs, domain)
DeleteHub(d) == [hubs EXCEPT ![d] = 0]

\* manager.hubs[domain].shutdownSignal <- struct{}{} is taken by the hub, then
\* the entry is deleted.
ShutdownDelivered ==
    /\ mpc = "sendShutdown"
    /\ HubListening(marg.hub)
    /\ hubSignals' = [hubSignals EXCEPT ![marg.hub] = @ + 1]
    /\ hubs' = DeleteHub(marg.dom)
    /\ mpc' = "select"
    /\ marg' = NoArg
    /\ UNCHANGED <<nextHub, hubDomain, hubStarted, hubWs, hubIn, hubReq, nextSock,
                   sockDomain, sockAllow, sockState, nextTun, tunState,
                   tunHub, lpc, proxyState, ctlState, cvars, hubStuck, lvars, kvars>>

BadGatewayNoClose(c) ==
    /\ connResp' = [connResp EXCEPT ![c] = "502"]
    /\ UNCHANGED connClosed
\* fmt.Fprint(remoteConn, badGatewayResponse); remoteConn.Close()
BadGateway(c) ==
    /\ connResp' = [connResp EXCEPT ![c] = "502"]
    /\ connClosed' = connClosed \cup {c}

\* case remoteConn := <-manager.remoteConn, up to the send on incomingClientConn.
RemoteConnEvent(d) ==
    /\ mpc = "select"
    /\ proxyState = "listening"
    /\ nextConn < MaxConns
    /\ LET c == nextConn + 1
       IN  /\ nextConn' = c
           /\ connDomain' = [connDomain EXCEPT ![c] = d]
           /\ IF hubs[d] = 0
              THEN /\ BadGateway(c)
                   /\ UNCHANGED <<mpc, marg>>
              ELSE /\ mpc' = "sendIncoming"
                   /\ marg' = [NoArg EXCEPT !.hub = hubs[d], !.conn = c, !.dom = d]
                   /\ UNCHANGED <<connResp, connClosed>>
    /\ UNCHANGED <<hubs, nextHub, hubDomain, hubStarted, hubSignals, hubWs, hubIn,
                   hubReq, nextSock, sockDomain, sockAllow, sockState,
                   nextTun, tunState, tunHub, lpc, proxyState, ctlState, hubStuck, lvars, kvars>>

\* domain.incomingClientConn <- remoteConn is taken by the hub.
IncomingDelivered ==
    /\ mpc = "sendIncoming"
    /\ HubListening(marg.hub)
    /\ hubIn' = [hubIn EXCEPT ![marg.hub] = @ \cup {marg.conn}]
    /\ mpc' = "select"
    /\ marg' = NoArg
    /\ UNCHANGED <<hubs, nextHub, hubDomain, hubStarted, hubSignals, hubWs, hubReq,
                   nextSock, sockDomain, sockAllow, sockState, nextTun,
                   tunState, tunHub, lpc, proxyState, ctlState, cvars, hubStuck, lvars, kvars>>

\* ------------------------------------------------------ Manager.handleTunnel
\* Runs on the goroutine of the data socket's HTTP handler.  d = 0 stands for
\* helper.GetDomainName returning an error.  The data socket is not closed on
\* either early return.
HandleTunnel(d) ==
    /\ ctlState \in {"listening", "stopped"}
    /\ nextTun < MaxTuns
    /\ LET t == nextTun + 1
           h == IF d = 0 THEN 0 ELSE hubs[d]
       IN  /\ nextTun' = t
           /\ tunHub' = [tunHub EXCEPT ![t] = h]
           /\ tunState' = [tunState EXCEPT ![t] = IF h = 0 THEN "dropped" ELSE "sending"]
    /\ UNCHANGED <<hubs, nextHub, hubDomain, hubStarted, hubSignals, hubWs, hubIn,
                   hubReq, mpc, marg, nextSock, sockDomain, sockAllow, sockState,
                   lpc, proxyState, ctlState, cvars, hubStuck, lvars, kvars>>

\* domain.serverRequests <- &request{...} is taken by the hub.
TunnelDelivered(t) ==
    /\ tunState[t] = "sending"
    /\ HubListening(tunHub[t])
    /\ tunState' = [tunState EXCEPT ![t] = "delivered"]
    /\ hubReq' = [hubReq EXCEPT ![tunHub[t]] = @ \cup {t}]
    /\ UNCHANGED <<hubs, nextHub, hubDomain, hubStarted, hubSignals, hubWs, hubIn,
                   mpc, marg, nextSock, sockDomain, sockAllow, sockState,
                   nextTun, tunHub, lpc, proxyState, ctlState, cvars, hubStuck, lvars, kvars>>

NextDispatch ==
    \/ ListenStart
    \/ \E ok \in BOOLEAN : ListenBind(ok)
    \/ RunListenerReturns
    \/ Done
    \/ ProxyClose
    \/ \E d \in Domains, allow \in BOOLEAN : RegisterDomain(d, allow)
    \/ RegisterDelivered
    \/ \E s \in SockIds : UnregisterDomain(s)
    \/ ShutdownDelivered
    \/ \E d \in Domains : RemoteConnEvent(d)
    \/ IncomingDelivered

SpecDispatch == Init /\ [][NextDispatch]_vars

\* The dispatcher together with the data-socket handlers.
NextTunnel ==
    \/ NextDispatch
    \/ \E d \in 0..MaxDomains : HandleTunnel(d)
    \/ \E t \in TunIds : TunnelDelivered(t)

SpecTunnel == Init /\ [][NextTunnel]_vars

\* ------------------------------------------------- hub loop as a sender
\* The hub's loop reports the loss of its control socket itself: it starts
\* the send of its domain on manager.unregisterDomain (unbuffered,
\* SetupManager) and takes nothing from its inboxes until the dispatcher has
\* taken it.
HubSendsUnregister(h) ==
    /\ HubListening(h)
    /\ hubWs[h] # {}
    /\ hubStuck' = hubStuck \cup {h}
    /\ UNCHANGED <<hubs, nextHub, hubDomain, hubStarted, hubSignals, hubWs, hubIn,
                   hubReq, mpc, marg, nextSock, sockDomain, sockAllow, sockState,
                   nextTun, tunState, tunHub, lpc, proxyState, ctlState, lvars,
                   cvars, kvars>>

\* case domain := <-manager.unregisterDomain with the hub loop h as sender, up
\* to the send on shutdownSignal; h is back at its select.
UnregisterFromHub(h) ==
    /\ mpc = "select"
    /\ h \in hubStuck
    /\ hubStuck' = hubStuck \ {h}
    /\ LET d == hubDomain[h]
       IN  IF hubs[d] # 0
           THEN /\ mpc' = "sendShutdown"
                /\ marg' = [NoArg EXCEPT !.hub = hubs[d], !.dom = d]
           ELSE UNCHANGED <<mpc, marg>>
    /\ UNCHANGED <<hubs, nextHub, hubDomain, hubStarted, hubSignals, hubWs, hubIn,
                   hubReq, nextSock, sockDomain, sockAllow, sockState, nextTun,
                   tunState, tunHub, lpc, proxyState, ctlState, lvars, cvars, kvars>>

\* The dispatcher with hubs whose loops send on unregisterDomain.
NextStall ==
    \/ NextDispatch
    \/ \E h \in HubIds : HubSendsUnregister(h)
    \/ \E h \in HubIds : UnregisterFromHub(h)

SpecStall == Init /\ [][NextStall]_vars

\* ============================================================ Manager.Manage
\* The select loop of manager/manager.go.  registerWs, registerChain,
\* unregisterChain and Pipe are unbuffered: each event below is the step in
\* which the loop takes the value and runs the case to its end.

AtSelectAlways == TRUE
\* The for/select of Manage is one goroutine: it takes the next event only
\* after the case it is running has ended.
AtSelect == writing = 0

\* case ws := <-manager.registerWs: manager.ws = ws
RegisterWs ==
    /\ ~crashed
    /\ AtSelect
    /\ nextWs < MaxWs
    /\ nextWs' = nextWs + 1
    /\ ws' = nextWs + 1
    /\ UNCHANGED <<wsDead, told, pipes, channels, nextData, splices, dataClosed,
                   crashed, writing, wsClosed, dvars, kvars, cvars>>

\* The agent behind control socket k goes away.
WsDies(k) ==
    /\ ~crashed
    /\ k \in 1..nextWs
    /\ k \notin wsDead
    /\ wsDead' = wsDead \cup {k}
    /\ UNCHANGED <<ws, nextWs, told, pipes, channels, nextData, splices, dataClosed,
                   crashed, writing, wsClosed, dvars, kvars, cvars>>

\* ticket := uuid.NewString(): a string not returned before.
NewTicket == nextConn + 1

\* manager.pipes[ticket] = pipe
RecordPipe(t, c) == [pipes EXCEPT ![t] = c]

\* case pipe := <-manager.Pipe, up to the call of ws.WriteJSON.  With a nil
\* manager.ws the case ends at once.  The message reaches the agent when the
\* socket is alive, whether or not WriteJSON has returned yet.
PipeEvent ==
    /\ ~crashed
    /\ AtSelect
    /\ nextConn < MaxConns
    /\ LET c == nextConn + 1
           ticket == NewTicket
       IN  /\ nextConn' = c
           /\ IF ws # 0
              THEN /\ told' = IF ws \in wsDead THEN told ELSE told \cup {ticket}
                   /\ writing' = ticket
              ELSE UNCHANGED <<told, writing>>
    /\ UNCHANGED <<ws, nextWs, wsDead, pipes, channels, nextData, splices, dataClosed,
                   crashed, wsClosed, dvars, kvars, connDomain, connResp, connClosed>>

\* ws.WriteJSON returns (its error is not looked at), then
\* manager.pipes[ticket] = pipe and the loop is back at its select.
WriteReturns ==
    /\ ~crashed
    /\ writing # 0
    /\ pipes' = RecordPipe(writing, nextConn)
    /\ writing' = 0
    /\ UNCHANGED <<ws, nextWs, wsDead, told, channels, nextData, splices, dataClosed,
                   crashed, wsClosed, dvars, kvars, cvars>>

\* case channel := <-manager.registerChain: a data socket d upgraded on
\* /ws/:uuid arrives with ticket t.  pipe is manager.pipes[t], nil (0) when
\* the map has no entry; the goroutine pair is started either way.
RegisterChainEvent(t) ==
    /\ ~crashed
    /\ AtSelect
    /\ nextData < MaxData
    /\ t \in told \cup {0}
    /\ LET d == nextData + 1
       IN  /\ nextData' = d
           /\ channels' = [channels EXCEPT ![t] = d]
           /\ splices' = Append(splices, [ticket |-> t, pipe |-> pipes[t], dest |-> d,
                                          back |-> "run", forth |-> "run",
                                          note |-> "no"])
    /\ UNCHANGED <<ws, nextWs, wsDead, told, pipes, dataClosed, crashed, writing, wsClosed, dvars, kvars, cvars>>

\* Endpoints released when a copy direction of splice i ends.
Released(i) ==
    /\ connClosed' = connClosed \cup ({splices[i].pipe} \ {0})
    /\ dataClosed' = dataClosed \cup {splices[i].dest}

\* go helper.Copy(pipe, dest) returns (EOF or error).
BackPumpStops(i) ==
    /\ ~crashed
    /\ i \in 1..Len(splices)
    /\ splices[i].back = "run"
    /\ splices' = [splices EXCEPT ![i].back = "stop"]
    /\ Released(i)
    /\ UNCHANGED <<ws, nextWs, wsDead, told, pipes, channels, nextData, crashed,
                   writing, wsClosed, dvars, kvars, nextConn, connDomain, connResp>>

\* helper.Copy(dest, pipe) returns (EOF or error); the deferred function then
\* sends the ticket on unregisterChain.
ForthPumpStops(i) ==
    /\ ~crashed
    /\ i \in 1..Len(splices)
    /\ splices[i].forth = "run"
    /\ splices' = [splices EXCEPT ![i].forth = "stop", ![i].note = "sending"]
    /\ Released(i)
    /\ UNCHANGED <<ws, nextWs, wsDead, told, pipes, channels, nextData, crashed,
                   writing, wsClosed, dvars, kvars, nextConn, connDomain, connResp>>

\* A copy direction of a splice started with a nil pipe calls a method of a
\* nil net.Conn: the panic ends the process.
NilPipePanics(i) ==
    /\ ~crashed
    /\ i \in 1..Len(splices)
    /\ splices[i].pipe = 0
    /\ "run" \in {splices[i].back, splices[i].forth}
    /\ crashed' = TRUE
    /\ UNCHANGED <<ws, nextWs, wsDead, told, pipes, channels, nextData, splices,
                   dataClosed, writing, wsClosed, dvars, kvars, cvars>>

\* case channel := <-manager.unregisterChain: the send deferred by splice i.
UnregisterChainEvent(i) ==
    /\ ~crashed
    /\ AtSelect
    /\ i \in 1..Len(splices)
    /\ splices[i].note = "sending"
    /\ splices' = [splices EXCEPT ![i].note = "sent"]
    /\ channels' = [channels EXCEPT ![splices[i].ticket] = 0]
    /\ pipes' = [pipes EXCEPT ![splices[i].ticket] = 0]
    /\ UNCHANGED <<ws, nextWs, wsDead, told, nextData, dataClosed, crashed, writing, wsClosed, dvars, kvars,
                   cvars>>

NextLoop ==
    \/ RegisterWs
    \/ \E k \in WsIds : WsDies(k)
    \/ PipeEvent
    \/ WriteReturns
    \/ \E t \in TicketIds : RegisterChainEvent(t)
    \/ \E i \in DataIds : BackPumpStops(i)
    \/ \E i \in DataIds : ForthPumpStops(i)
    \/ \E i \in DataIds : NilPipePanics(i)
    \/ \E i \in DataIds : UnregisterChainEvent(i)

SpecLoop == Init /\ [][NextLoop]_vars


\* ==================================================== dispatcher properties

\* The remoteConn event taken in a step, 0 when the step takes none.
TakenConn == IF nextConn' = nextConn + 1 THEN nextConn' ELSE 0

\* The register event taken in a step (its control socket), 0 when none.
TakenSock == IF nextSock' = nextSock + 1 THEN nextSock' ELSE 0

\* Hubs that received c on incomingClientConn.
HoldersOf(c) == {h \in HubIds : c \in hubIn[h]}

\* What the dispatcher has done with each delivered public connection: either
\* answered 502 and closed it and gave it to no hub, or left it untouched and
\* gave it (or is giving it) to one hub.
ConnOutcome(c) ==
    \/ /\ connResp[c] = "502" /\ c \in connClosed
       /\ HoldersOf(c) = {}
       /\ marg.conn # c
    \/ /\ connResp[c] = "none" /\ c \notin connClosed
       /\ \/ HoldersOf(c) = {} /\ mpc = "sendIncoming" /\ marg.conn = c
          \/ Cardinality(HoldersOf(c)) = 1 /\ marg.conn # c

\* C2: every remoteConn event has exactly one of two outcomes.  With no hub
\* for its domain the connection gets the 502 response and is closed and no
\* hub inbox changes; with a hub the connection goes to that hub's
\* incomingClientConn inbox and to no other, unwritten and open.
C2_RemoteConnOutcome ==
    [][ /\ TakenConn # 0 =>
            LET c == TakenConn
                d == connDomain'[c]
            IN  /\ hubIn' = hubIn
                /\ IF hubs[d] = 0
                   THEN /\ connResp'[c] = "502" /\ c \in connClosed'
                        /\ mpc' = "select"
                   ELSE /\ connResp'[c] = "none" /\ c \notin connClosed'
                        /\ mpc' = "sendIncoming"
                        /\ marg'.hub = hubs[d] /\ marg'.conn = c
        /\ hubIn' # hubIn =>
            /\ mpc = "sendIncoming"
            /\ marg.hub = hubs[connDomain[marg.conn]]
            /\ hubIn' = [hubIn EXCEPT ![marg.hub] = @ \cup {marg.conn}]
        /\ \A c \in 1..nextConn :
            /\ connResp'[c] = connResp[c]
            /\ (c \in connClosed') = (c \in connClosed)
        /\ \A c \in 1..nextConn' : ConnOutcome(c)'
      ]_vars

\* C2 witness: one connection was answered 502 and closed, another sits in
\* the inbox of the hub of its domain.
C2_Witness ==
    \E c1, c2 \in 1..nextConn :
        /\ connResp[c1] = "502" /\ c1 \in connClosed
        /\ \E h \in HubIds : c2 \in hubIn[h] /\ hubDomain[h] = connDomain[c2]
        /\ c2 \notin connClosed

\* Hubs of domain d that were started and have taken no shutdown signal.
ActiveHubs(d) == {h \in HubIds : hubDomain[h] = d /\ h \in hubStarted /\ hubSignals[h] = 0}

\* C5: every domain has at most one active hub; the hub in the map is the
\* active one, and every hub that left the map has taken its shutdown signal.
C5_OneActiveHub ==
    /\ \A d \in Domains : Cardinality(ActiveHubs(d)) <= 1
    /\ \A d \in Domains : hubs[d] # 0 => hubs[d] \in ActiveHubs(d)
    /\ \A h \in 1..nextHub : hubs[hubDomain[h]] # h => hubSignals[h] >= 1

\* C5 witness: a domain whose first hub was shut down and whose second hub is
\* active.
C5_Witness ==
    \E h1, h2 \in 1..nextHub :
        /\ h1 # h2 /\ hubDomain[h1] = hubDomain[h2]
        /\ hubSignals[h1] = 1
        /\ h2 \in ActiveHubs(hubDomain[h2])

\* C7: a control socket registering for a domain whose hub already holds a
\* socket with AllowMultipleConnections = FALSE is not delivered to the hub.
C7_DropSecondSocket ==
    /\ \A h \in HubIds : \A s1, s2 \in hubWs[h] : s1 < s2 => sockAllow[s1]
    /\ mpc = "sendRegister" => \A s1 \in hubWs[marg.hub] : sockAllow[s1]

\* The unregister event taken in a step (its sending socket), 0 when none.
TakenUnregister ==
    IF \E s \in SockIds : sockState[s] = "bound" /\ sockState'[s] = "gone"
    THEN CHOOSE s \in SockIds : sockState[s] = "bound" /\ sockState'[s] = "gone"
    ELSE 0

\* C8: unregister(D) with a hub present signals that hub once and removes it
\* from the map; the entry stays absent until a register for D, and meanwhile
\* every remoteConn for D is answered 502 and closed; unregister(D) with no
\* hub present signals nothing and changes nothing.
C8_Unregister ==
    [][ /\ TakenUnregister # 0 =>
            LET d == sockDomain[TakenUnregister]
            IN  /\ hubs' = hubs /\ hubSignals' = hubSignals
                /\ IF hubs[d] # 0
                   THEN mpc' = "sendShutdown" /\ marg'.hub = hubs[d] /\ marg'.dom = d
                   ELSE /\ mpc' = "select"
                        /\ UNCHANGED <<nextHub, hubDomain, hubStarted, hubWs, hubIn, cvars>>
        /\ (mpc = "sendShutdown" /\ mpc' # mpc) =>
            /\ hubs[marg.dom] = marg.hub
            /\ hubSignals' = [hubSignals EXCEPT ![marg.hub] = 1]
            /\ hubs' = [hubs EXCEPT ![marg.dom] = 0]
        /\ \A h \in HubIds :
            hubSignals'[h] # hubSignals[h] => mpc = "sendShutdown" /\ marg.hub = h
        /\ \A d \in Domains :
            /\ (hubs[d] = 0 /\ hubs'[d] # 0) =>
                    (TakenSock # 0 /\ sockDomain'[TakenSock] = d)
            /\ (hubs[d] = 0 /\ TakenConn # 0 /\ connDomain'[TakenConn] = d) =>
                    (connResp'[TakenConn] = "502" /\ TakenConn \in connClosed')
      ]_vars

\* C8 witness: a hub was signalled and removed, a later unregister for its
\* domain found no hub, and a connection for the domain was answered 502.
C8_Witness ==
    \E h \in 1..nextHub :
        /\ hubSignals[h] = 1 /\ hubs[hubDomain[h]] = 0
        /\ Cardinality({s \in SockIds : sockDomain[s] = hubDomain[h] /\ sockState[s] = "gone"}) >= 2
        /\ \E c \in 1..nextConn : connDomain[c] = hubDomain[h] /\ connResp[c] = "502"

\* C9: once the dispatcher has stopped, every hub still in the map has been
\* signalled to shut down.
C9_DoneSignalsHubs ==
    mpc = "stopped" => \A d \in Domains : hubs[d] # 0 => hubSignals[hubs[d]] >= 1

\* C10: shutdown order: the public listener is stopped before the control
\* listener, and both before the done event reaches the dispatcher.
C10_ShutdownOrder ==
    /\ ctlState = "stopped" => proxyState = "closed"
    /\ mpc = "stopped" => (proxyState = "closed" /\ ctlState # "listening")

\* ==================================================== ticket loop properties

\* Splices started on public connection c.
SplicesOn(c) == {i \in 1..Len(splices) : splices[i].pipe = c}

\* Splices on c with a copy direction still running.
LiveSplicesOn(c) ==
    {i \in SplicesOn(c) : "run" \in {splices[i].back, splices[i].forth}}

\* c is an entry of the pending table.
Pending(c) == \E t \in TicketIds : pipes[t] = c

\* C1: at most one splice is ever started for a ticket: no public connection
\* gets a second pair of copy pumps from a second data socket with its ticket.
C1_OneSplicePerTicket ==
    \A c \in 1..nextConn : Cardinality(SplicesOn(c)) <= 1

\* The data socket taken from registerChain in a step, 0 when none.
TakenData == IF nextData' = nextData + 1 THEN nextData' ELSE 0

\* C3: a data socket whose ticket has no pending entry is closed and starts
\* no splice; a splice is started only for a ticket with a pending entry.
C3_UnknownTicketClosed ==
    [][ TakenData # 0 =>
            LET d == TakenData
                t == CHOOSE u \in TicketIds : channels'[u] = d
            IN  IF pipes[t] = 0
                THEN d \in dataClosed' /\ splices' = splices
                ELSE /\ Len(splices') = Len(splices) + 1
                     /\ splices'[Len(splices')].pipe = pipes[t]
                     /\ splices'[Len(splices')].dest = d
      ]_vars

\* C4: a public connection taken by the loop while no control socket is bound,
\* or while the bound one is dead, gets the 502 response, is closed and is
\* not put in the pending table.
C4_NoControlSocket502 ==
    [][ (TakenConn # 0 /\ (ws = 0 \/ ws \in wsDead)) =>
            /\ connResp'[TakenConn] = "502"
            /\ TakenConn \in connClosed'
            /\ \A t \in TicketIds : pipes'[t] # TakenConn
      ]_vars

\* C6: a public connection delivered to the loop is never both pending and
\* spliced, is spliced to at most one data socket, and if open is pending or
\* spliced.
C6_PendingSplicedOrClosed ==
    \A c \in 1..nextConn :
        /\ ~(Pending(c) /\ LiveSplicesOn(c) # {})
        /\ Cardinality(LiveSplicesOn(c)) <= 1
        /\ c \notin connClosed => (Pending(c) \/ LiveSplicesOn(c) # {})

\* Splices started for ticket t.
SplicesFor(t) == {i \in 1..Len(splices) : splices[i].ticket = t}

\* The control socket taken from registerWs in a step, 0 when none.
TakenWs == IF nextWs' = nextWs + 1 THEN nextWs' ELSE 0

\* C11: when a control socket is bound over an active one, the prior socket is
\* closed and every entry of the pending table is drained: its connection is
\* closed and the entry removed.
C11_ReplaceClosesAndDrains ==
    [][ (TakenWs # 0 /\ ws # 0) =>
            /\ ws \in wsClosed'
            /\ \A t \in TicketIds :
                   pipes[t] # 0 => (pipes'[t] = 0 /\ pipes[t] \in connClosed')
      ]_vars

\* A step of the loop other than a data-socket arrival that expires ticket t:
\* its connection is answered 502 and closed and its entry leaves the table.
Expires(t) ==
    /\ NextLoop
    /\ nextData' = nextData
    /\ pipes'[t] = 0
    /\ connResp'[pipes[t]] = "502"
    /\ pipes[t] \in connClosed'

\* C12: no entry stays in the pending table forever: while no data socket has
\* arrived for a pending ticket, the step that expires it can be taken.
C12_PendingCanExpire ==
    \A t \in TicketIds :
        (~crashed /\ pipes[t] # 0 /\ SplicesFor(t) = {}) => ENABLED Expires(t)

\* C16: the loop does no network I/O itself, so a control write that has not
\* returned never keeps it from taking a waiting splice-end notification.
C16_WriteNeverBlocksLoop ==
    \A i \in DataIds :
        (~crashed /\ i <= Len(splices) /\ splices[i].note = "sending")
            => ENABLED UnregisterChainEvent(i)

\* C17: the splice-end notification of a splice is emitted only after both
\* copy directions have stopped and both endpoints are released, and once the
\* loop has handled it neither table holds an entry for the ticket.
C17_SpliceEndNotification ==
    \A i \in 1..Len(splices) :
        /\ splices[i].note # "no" =>
               /\ splices[i].back = "stop" /\ splices[i].forth = "stop"
               /\ splices[i].dest \in dataClosed
               /\ splices[i].pipe # 0 => splices[i].pipe \in connClosed
        /\ splices[i].note = "sent" =>
               (pipes[splices[i].ticket] = 0 /\ channels[splices[i].ticket] = 0)

\* C18: the first data socket that answers a ticket the agent was sent finds
\* the ticket's connection in pipes: the registerChain event is taken only
\* after the Pipe case that minted the ticket has recorded it.
C18_MatchAfterRecord ==
    [][ TakenData # 0 =>
            LET t == CHOOSE u \in TicketIds : channels'[u] = TakenData
            IN  (t \in told /\ SplicesFor(t) = {}) =>
                    /\ pipes[t] = t
                    /\ splices'[Len(splices')].pipe = t
      ]_vars

\* C18 witness: a data socket was matched with the connection of its ticket
\* while the agent already holds a second ticket whose Pipe case has not yet
\* recorded it.
C18_Witness ==
    /\ \E i \in 1..Len(splices) : splices[i].ticket # 0 /\ splices[i].pipe = splices[i].ticket
    /\ writing # 0 /\ writing \in told /\ pipes[writing] = 0

\* ------------------------------------------------------------------ helper
\* reflect: a struct all of whose fields are zero; false for a non-struct.
IsEmptyStruct(value) ==
    IF value.kind \in StructKinds
    THEN \A i \in 1..Len(value.f) : value.f[i] = ""
    ELSE FALSE

\* The switch of SetValue with the bool case falling out of the switch.
SetValueNoBool(value, defaultValue) ==
    CASE value.kind = "string" -> IF value.v # "" THEN value ELSE defaultValue
      [] value.kind = "struct{}" -> IF ~IsEmptyStruct(value) THEN value ELSE defaultValue
      [] OTHER -> defaultValue

\* The switch of SetValue with the string case returning v as it is.
SetValueKeepEmpty(value, defaultValue) ==
    CASE value.kind \in {"string", "bool"} -> value
      [] value.kind = "struct{}" -> IF ~IsEmptyStruct(value) THEN value ELSE defaultValue
      [] OTHER -> defaultValue

\* switch v := value.(type): a Go case does not fall through, so case int
\* leaves the switch; a type no case names leaves it too.
SetValue(value, defaultValue) ==
    CASE value.kind = "string" -> IF value.v # "" THEN value ELSE defaultValue
      [] value.kind = "int" -> defaultValue
      [] value.kind = "bool" -> value
      [] value.kind = "struct{}" -> IF ~IsEmptyStruct(value) THEN value ELSE defaultValue
      [] OTHER -> defaultValue

\* One call SetValue(svValue, svDefault).
CallSetValue ==
    /\ svResult = NoValue
    /\ svResult' = SetValue(svValue, svDefault)
    /\ UNCHANGED <<svValue, svDefault, cpc, absOk, flagP, flagM, fileOpen, fileRead,
                   fileParse, fileP, fileM, config, dvars, lvars, cvars>>

InitSetValue ==
    /\ InitRelay
    /\ InitDefaults
    /\ svValue \in Values
    /\ svDefault \in Values
    /\ svResult = NoValue

SpecSetValue == InitSetValue /\ [][CallSetValue]_vars

\* ------------------------------------------------------------ server/config
\* result as yaml.Unmarshal leaves it: the zero Config when the file could
\* not be opened.
FromFile == [nil |-> FALSE,
             Proxy |-> IF fileOpen THEN fileP ELSE "",
             Manager |-> IF fileOpen THEN fileM ELSE ""]

\* GetConfig with config == nil calls loadConfig; filepath.Abs fails:
\* log.Fatal(err) ends the process.
LoadConfigAbsFatal ==
    /\ cpc = "start"
    /\ config.nil
    /\ ~absOk
    /\ cpc' = "fatal"
    /\ UNCHANGED <<absOk, flagP, flagM, fileOpen, fileRead, fileParse, fileP, fileM,
                   config, svValue, svDefault, svResult, dvars, lvars, cvars>>

\* loadConfig from flag.Parse to its return: a file that opens and then fails
\* in io.ReadAll or yaml.Unmarshal returns before config is assigned.
LoadConfig ==
    /\ cpc = "start"
    /\ config.nil
    /\ absOk
    /\ cpc' = "returned"
    /\ config' = IF fileOpen /\ ~(fileRead /\ fileParse)
                 THEN config
                 ELSE [FromFile EXCEPT
                         !.Proxy = SetValue(Str(flagP), Str(FromFile.Proxy)).v,
                         !.Manager = SetValue(Str(flagM), Str(FromFile.Manager)).v]
    /\ UNCHANGED <<absOk, flagP, flagM, fileOpen, fileRead, fileParse, fileP, fileM,
                   svValue, svDefault, svResult, dvars, lvars, cvars>>

\* if config == nil { log.Fatal(errors.New("could not load config")) }
GetConfigFatal ==
    /\ cpc = "returned"
    /\ config.nil
    /\ cpc' = "fatal"
    /\ UNCHANGED <<absOk, flagP, flagM, fileOpen, fileRead, fileParse, fileP, fileM,
                   config, svValue, svDefault, svResult, dvars, lvars, cvars>>

\* return config.(Config), nil
GetConfigReturns ==
    /\ cpc = "returned"
    /\ ~config.nil
    /\ cpc' = "done"
    /\ UNCHANGED <<absOk, flagP, flagM, fileOpen, fileRead, fileParse, fileP, fileM,
                   config, svValue, svDefault, svResult, dvars, lvars, cvars>>

InitConfig ==
    /\ InitRelay
    /\ InitNoCall
    /\ cpc = "start"
    /\ absOk \in BOOLEAN
    /\ flagP \in ProxyFlags
    /\ flagM \in ManagerFlags
    /\ fileOpen \in BOOLEAN
    /\ fileRead \in BOOLEAN
    /\ fileParse \in BOOLEAN
    /\ fileP \in ProxyInFile
    /\ fileM \in ManagerInFile
    /\ config = NilConfig

NextConfig ==
    \/ LoadConfigAbsFatal
    \/ LoadConfig
    \/ GetConfigFatal
    \/ GetConfigReturns

SpecConfig == InitConfig /\ [][NextConfig]_vars

\* ================================================= ownership and stalls

\* C14: Manager.hubs is read and written by the manage goroutine alone: no
\* handleTunnel goroutine has looked a hub up in the map.
C14_SingleOwnerOfHubs ==
    \A t \in 1..nextTun : tunHub[t] = 0 /\ tunState[t] \notin {"sending", "delivered"}

\* C15: the dispatcher never waits on a hub: whenever it is inside a send to
\* a hub inbox, that hub is taking values, so the loop is back at its select
\* whatever the hub is doing.
C15_DispatcherNeverStalls ==
    mpc \in {"sendRegister", "sendIncoming", "sendShutdown"} => HubListening(marg.hub)

\* ================================================= configuration

\* C13: the process exits only on a failure to bind the control listener: a
\* configuration file that cannot be read or parsed does not end it.
C13_ExitOnlyOnBindFailure == cpc = "fatal" => ctlState = "failed"

\* C19 as stated: SetValue returns value for a non-empty string and
\* defaultValue for an empty string and for every value that is not a string.
C19_NonStringsDropped ==
    svResult # NoValue =>
        svResult = IF svValue.kind = "string" /\ svValue.v # ""
                   THEN svValue ELSE svDefault

\* C19 amended: SetValue returns value for a non-empty string and for a bool
\* (true or false), and defaultValue for everything else: an empty string, an
\* int, struct{} and any other type.
C19_SetValue ==
    svResult # NoValue =>
        svResult = IF \/ svValue.kind = "string" /\ svValue.v # ""
                      \/ svValue.kind = "bool"
                   THEN svValue ELSE svDefault

C19_Witness ==
    /\ svResult # NoValue
    /\ svValue.kind = "bool"
    /\ svDefault # svValue
    /\ svResult = svValue

\* C20: in the loaded configuration each address is the flag's value when
\* that is non-empty and the file's value otherwise; with the default flags
\* it is ":8080" / ":8081" whatever the file holds, and it is empty only when
\* the flag is empty and the file gives no value.
C20_FlagOverFile ==
    ~config.nil =>
        /\ config.Proxy = (IF flagP # "" THEN flagP ELSE FromFile.Proxy)
        /\ config.Manager = (IF flagM # "" THEN flagM ELSE FromFile.Manager)
        /\ (flagP = ":8080" /\ flagM = ":8081" =>
                config.Proxy = ":8080" /\ config.Manager = ":8081")
        /\ (config.Proxy = "" => flagP = "" /\ FromFile.Proxy = "")
        /\ (config.Manager = "" => flagM = "" /\ FromFile.Manager = "")

C20_Witness ==
    /\ cpc = "done"
    /\ flagP = ""
    /\ fileP # ""
    /\ config.Proxy = fileP
    /\ flagM # ""
    /\ fileM # ""
    /\ config.Manager = flagM

====
